---- MODULE Spec2Model ----
(***************************************************************************)
(* Context lifecycle of surfman's Device (platform/windows/angle/context.rs):*)
(* concurrent context creation behind CREATE_CONTEXT_MUTEX, the Framebuffer *)
(* state machine with its fast/slow surface replacement, and context        *)
(* destruction.  Native and GL entry points are opaque: each may succeed or *)
(* fail, which the actions draw as inputs.  Every call made by an operation *)
(* is appended to a trace kept with the operation's result in `last`.       *)
(* The GLX GLContext (platform/glx/gl_context.rs) with its make_current and  *)
(* Drop is modelled next to it, on the same threads.                         *)
(***************************************************************************)
EXTENDS Integers, Sequences, FiniteSets, TLC

\* ---- bounds of the model ----
NumThreads == 2
MaxContexts == 2
NumSurfaces == 3

Threads == 1..NumThreads
ContextIds == 1..MaxContexts
Surfaces == 1..NumSurfaces

\* ptr::null_mut(): the sentinel of a destroyed context
NULL == 0
\* Option::None for a Surface
NoSurface == 0

\* Surface::descriptor(): surfaces are made by the caller; odd ones are 64x64,
\* even ones 128x128.
Descriptor(surface) ==
    [size |-> IF surface % 2 = 1 THEN <<64, 64>> ELSE <<128, 128>>]

\* ---- Framebuffer (closed sum type None | Window | Object{..}) ----
NoSurfaceTexture == [gl_texture |-> 0, surface |-> NoSurface]
NoRenderbuffers == [id |-> 0, size |-> <<0, 0>>]

FramebufferNone ==
    [tag |-> "None", framebuffer_object |-> 0,
     color_surface_texture |-> NoSurfaceTexture, renderbuffers |-> NoRenderbuffers]

FramebufferWindow ==
    [tag |-> "Window", framebuffer_object |-> 0,
     color_surface_texture |-> NoSurfaceTexture, renderbuffers |-> NoRenderbuffers]

FramebufferObject(framebuffer_object, color_surface_texture, renderbuffers) ==
    [tag |-> "Object", framebuffer_object |-> framebuffer_object,
     color_surface_texture |-> color_surface_texture, renderbuffers |-> renderbuffers]

\* ---- Result values ----
Ok(value) == [ok |-> TRUE, err |-> "", value |-> value]
Err(err) == [ok |-> FALSE, err |-> err, value |-> 0]
\* CGLError: kCGLNoError, and the values a failing native call returns
kCGLNoError == 0
CGLErrors == {1, 2}
\* Err(Error::X(err.to_windowing_api_error())): the variant carries the CGLError
ErrWith(err, code) == [ok |-> FALSE, err |-> err, value |-> code]
\* a call that has not returned yet, and one that ended in a panic
Pending == [ok |-> FALSE, err |-> "pending", value |-> 0]
Panic == [ok |-> FALSE, err |-> "panic", value |-> 0]

\* ContextAttributes offered to create_context: a desktop GL 3 context without
\* auxiliary buffers, a legacy GL 2 context with all of them, and a GLES request.
AllFlags == {"ALPHA", "DEPTH", "STENCIL"}
AttributeSets ==
    {[api |-> "GL", major |-> 3, flags |-> {}],
     [api |-> "GL", major |-> 2, flags |-> AllFlags],
     [api |-> "GLES", major |-> 3, flags |-> {}]}

\* Outcomes of the opaque calls of one operation: the CGLError of
\* CGLSetCurrentContext, and TRUE for a surface call that fails.  No operation
\* goes on after a failed call except to drop a result, so one failing call per
\* operation covers every path.
NoFailure ==
    [make_current |-> kCGLNoError, create_surface_texture |-> FALSE,
     destroy_surface_texture |-> FALSE, destroy_surface |-> FALSE]
Failures ==
    {NoFailure,
     [NoFailure EXCEPT !.create_surface_texture = TRUE],
     [NoFailure EXCEPT !.destroy_surface_texture = TRUE],
     [NoFailure EXCEPT !.destroy_surface = TRUE]}
        \cup {[NoFailure EXCEPT !.make_current = err] : err \in CGLErrors}

VARIABLES
    pc,             \* position of each thread inside create_context / from_current_context
    local,          \* locals of the creation a thread is running
    mutex,          \* CREATE_CONTEXT_MUTEX: [holder, previous_context_created, poisoned]
    loadCount,      \* number of gl::load_with invocations in the process
    contexts,       \* the Contexts returned so far, in order of creation
    gl,             \* native side: GL names in use, native contexts and their pixel
                    \* formats, viewports, release counts, the GLX contexts
    callerSurfaces, \* Surfaces owned by the caller
    last            \* the last call: operation, arguments, result, native calls made

vars == <<pc, local, mutex, loadCount, contexts, gl, callerSurfaces, last>>

\* The state an operation works on; `trace` collects the native calls it makes.
World == [contexts |-> contexts, gl |-> gl, trace |-> <<>>]

Call(w, name, id) == [w EXCEPT !.trace = Append(@, <<name, id>>)]

\* ---- GL objects ----
\* glGen* hands out the lowest name not in use; deleting a name that is not in
\* use (a second destruction of the same object) is counted in doubleFrees.
FreshName(inUse) ==
    CHOOSE n \in 1..(Cardinality(inUse) + 1) :
        n \notin inUse /\ \A m \in 1..(n - 1) : m \in inUse

Freed(w, alive, name) ==
    IF name \in alive THEN w ELSE [w EXCEPT !.gl.doubleFrees = @ + 1]

\* ---- opaque surface operations of the Device (surface.rs) ----
\* Each is one native call that succeeds or fails; the argument is moved into
\* the call, so a failing call yields nothing back.

\* create_surface_texture(context, surface) -> Result<SurfaceTexture, Error>
create_surface_texture(w, surface, fail) ==
    IF fail
    THEN [w |-> Call(w, "create_surface_texture", 0),
          result |-> Err("SurfaceTextureCreationFailed"),
          surface_texture |-> NoSurfaceTexture]
    ELSE LET gl_texture == FreshName(w.gl.textures)
             w1 == [w EXCEPT !.gl.textures = @ \cup {gl_texture}]
         IN [w |-> Call(w1, "create_surface_texture", gl_texture),
             result |-> Ok(0),
             surface_texture |-> [gl_texture |-> gl_texture, surface |-> surface]]

\* destroy_surface_texture(context, surface_texture) -> Result<Surface, Error>
destroy_surface_texture(w, surface_texture, fail) ==
    LET w1 == Freed(w, w.gl.textures, surface_texture.gl_texture)
        w2 == [w1 EXCEPT !.gl.textures = @ \ {surface_texture.gl_texture}]
        w3 == Call(w2, "destroy_surface_texture", surface_texture.gl_texture)
    IN IF fail
       THEN [w |-> w3, result |-> Err("SurfaceTextureDestructionFailed")]
       ELSE [w |-> w3, result |-> Ok(surface_texture.surface)]

\* destroy_surface(context, surface) -> Result<(), Error>
destroy_surface(w, surface, fail) ==
    LET w1 == Freed(w, Surfaces \ w.gl.surfacesDestroyed, surface)
        w2 == [w1 EXCEPT !.gl.surfacesDestroyed = @ \cup {surface}]
        w3 == Call(w2, "destroy_surface", surface)
    IN IF fail
       THEN [w |-> w3, result |-> Err("SurfaceDestructionFailed")]
       ELSE [w |-> w3, result |-> Ok(0)]

\* Renderbuffers::new(&size, &gl_info)
RenderbuffersNew(w, size) ==
    LET id == FreshName(w.gl.renderbuffers)
        w1 == [w EXCEPT !.gl.renderbuffers = @ \cup {id}]
    IN [w |-> Call(w1, "Renderbuffers::new", id),
        renderbuffers |-> [id |-> id, size |-> size]]

\* Renderbuffers::destroy(&mut self)
RenderbuffersDestroy(w, renderbuffers) ==
    LET w1 == Freed(w, w.gl.renderbuffers, renderbuffers.id)
    IN Call([w1 EXCEPT !.gl.renderbuffers = @ \ {renderbuffers.id}],
            "Renderbuffers::destroy", renderbuffers.id)

\* gl::GenFramebuffers(1, &mut framebuffer_object)
GenFramebuffers(w) ==
    LET framebuffer_object == FreshName(w.gl.framebuffers)
        w1 == [w EXCEPT !.gl.framebuffers = @ \cup {framebuffer_object}]
    IN [w |-> Call(w1, "gl::GenFramebuffers", framebuffer_object),
        framebuffer_object |-> framebuffer_object]

\* gl::DeleteFramebuffers(1, &framebuffer_object)
DeleteFramebuffers(w, framebuffer_object) ==
    LET w1 == Freed(w, w.gl.framebuffers, framebuffer_object)
    IN Call([w1 EXCEPT !.gl.framebuffers = @ \ {framebuffer_object}],
            "gl::DeleteFramebuffers", framebuffer_object)

\* ---- Device operations on a Context ----

\* Device::make_context_current
make_context_current(w, c, err) ==
    LET w1 == Call(w, "CGLSetCurrentContext", w.contexts[c].cgl_context)
    IN IF err # kCGLNoError
       THEN [w |-> Call(w1, "CGLError", err), result |-> ErrWith("MakeCurrentFailed", err)]
       ELSE [w |-> w1, result |-> Ok(0)]

\* ReleaseContext::release of the Context's releaser
release(w, c) ==
    LET cgl_context == w.contexts[c].cgl_context
        w1 == [w EXCEPT !.gl.released[c] = @ + 1]
        w2 == Call(w1, "ReleaseContext::release", cgl_context)
    IN IF w.contexts[c].releaser = "OwnedCGLContext"
       THEN Call(Call([w2 EXCEPT !.gl.nativeAlive = @ \ {cgl_context}],
                      "CGLSetCurrentContext", NULL),
                 "CGLDestroyContext", cgl_context)
       ELSE w2

\* Device::destroy_context, lines 241-262: the teardown of an Object framebuffer
destroy_context_framebuffer(w, c, f) ==
    LET framebuffer == w.contexts[c].framebuffer
        \* mem::replace(&mut context.framebuffer, Framebuffer::None)
        w0 == [w EXCEPT !.contexts[c].framebuffer = FramebufferNone]
        w1 == RenderbuffersDestroy(w0, framebuffer.renderbuffers)
        w2 == IF framebuffer.framebuffer_object # 0
              THEN DeleteFramebuffers(w1, framebuffer.framebuffer_object)
              ELSE w1
        dst == destroy_surface_texture(w2, framebuffer.color_surface_texture,
                                       f.destroy_surface_texture)
        ds == destroy_surface(dst.w, dst.result.value, f.destroy_surface)
    IN IF framebuffer.tag # "Object"
       THEN [w |-> w0, result |-> Ok(0)]
       ELSE IF ~dst.result.ok
            THEN [w |-> dst.w, result |-> dst.result]
            ELSE [w |-> ds.w, result |-> ds.result]

\* destroy_context without the test of the null handle
destroy_context_NoNullCheck(w, c, f) ==
    LET torn == destroy_context_framebuffer(w, c, f)
        w3 == release(torn.w, c)
    IN [w |-> [w3 EXCEPT !.contexts[c].cgl_context = NULL], result |-> torn.result]

\* destroy_context that forgets to null the handle after the release
destroy_context_KeepsHandle(w, c, f) ==
    IF w.contexts[c].cgl_context = NULL
    THEN [w |-> w, result |-> Ok(0)]
    ELSE LET torn == destroy_context_framebuffer(w, c, f)
         IN [w |-> release(torn.w, c), result |-> torn.result]

\* destroy_context that releases the native context before the teardown
destroy_context_ReleaseFirst(w, c, f) ==
    IF w.contexts[c].cgl_context = NULL
    THEN [w |-> w, result |-> Ok(0)]
    ELSE LET w1 == release(w, c)
             torn == destroy_context_framebuffer(w1, c, f)
             w4 == [torn.w EXCEPT !.contexts[c].cgl_context = NULL]
         IN [w |-> w4, result |-> torn.result]

\* destroy_context that tears the Object framebuffer down through a borrow and
\* leaves it in the Context (no mem::replace)
destroy_context_KeepsFramebuffer(w, c, f) ==
    IF w.contexts[c].cgl_context = NULL
    THEN [w |-> w, result |-> Ok(0)]
    ELSE LET torn == destroy_context_framebuffer(w, c, f)
             w3 == release(torn.w, c)
             w4 == [w3 EXCEPT !.contexts[c].cgl_context = NULL,
                              !.contexts[c].framebuffer = w.contexts[c].framebuffer]
         IN [w |-> w4, result |-> torn.result]

\* destroy_context that matches on the Framebuffer in place and takes it out of
\* the Context only when it is Object
destroy_context_MatchesInPlace(w, c, f) ==
    IF w.contexts[c].cgl_context = NULL
    THEN [w |-> w, result |-> Ok(0)]
    ELSE LET torn == IF w.contexts[c].framebuffer.tag = "Object"
                     THEN destroy_context_framebuffer(w, c, f)
                     ELSE [w |-> w, result |-> Ok(0)]
             w3 == release(torn.w, c)
             w4 == [w3 EXCEPT !.contexts[c].cgl_context = NULL]
         IN [w |-> w4, result |-> torn.result]

\* Device::destroy_context
destroy_context(w, c, f) ==
    IF w.contexts[c].cgl_context = NULL
    THEN [w |-> w, result |-> Ok(0)]
    ELSE LET torn == destroy_context_framebuffer(w, c, f)
             w3 == release(torn.w, c)
             w4 == [w3 EXCEPT !.contexts[c].cgl_context = NULL]
         IN [w |-> w4, result |-> torn.result]

\* create_framebuffer that leaves the viewport alone
create_framebuffer_NoViewport(w, c, color_surface, f) ==
    LET descriptor == Descriptor(color_surface)
        cst == create_surface_texture(w, color_surface, f.create_surface_texture)
    IN IF ~cst.result.ok
       THEN [w |-> cst.w, result |-> cst.result]
       ELSE
         LET gen == GenFramebuffers(cst.w)
             w2 == Call(gen.w, "gl::FramebufferTexture2D", cst.surface_texture.gl_texture)
             rb == RenderbuffersNew(w2, descriptor.size)
             w4 == [rb.w EXCEPT !.contexts[c].framebuffer =
                       FramebufferObject(gen.framebuffer_object, cst.surface_texture,
                                         rb.renderbuffers)]
         IN [w |-> w4, result |-> Ok(0)]

\* Device::create_framebuffer (the context is current)
create_framebuffer(w, c, color_surface, f) ==
    LET descriptor == Descriptor(color_surface)
        cst == create_surface_texture(w, color_surface, f.create_surface_texture)
    IN IF ~cst.result.ok
       THEN [w |-> cst.w, result |-> cst.result]
       ELSE
         LET gen == GenFramebuffers(cst.w)
             framebuffer_object == gen.framebuffer_object
             w2 == Call(gen.w, "gl::FramebufferTexture2D", cst.surface_texture.gl_texture)
             rb == RenderbuffersNew(w2, descriptor.size)
             w3 == Call([rb.w EXCEPT !.gl.viewport[c] =
                            <<0, 0, descriptor.size[1], descriptor.size[2]>>],
                        "gl::Viewport", descriptor.size[1])
             w4 == [w3 EXCEPT !.contexts[c].framebuffer =
                       FramebufferObject(framebuffer_object, cst.surface_texture,
                                         rb.renderbuffers)]
         IN [w |-> w4, result |-> Ok(0)]

\* destroy_framebuffer that reads the framebuffer without taking it out of the
\* Context (no mem::replace)
destroy_framebuffer_KeepsFramebuffer(w, c, f) ==
    LET framebuffer == w.contexts[c].framebuffer
    IN IF framebuffer.tag = "None"
       THEN [w |-> w, old_surface |-> NoSurface, result |-> Ok(0)]
       ELSE
         LET dst == destroy_surface_texture(w, framebuffer.color_surface_texture,
                                            f.destroy_surface_texture)
         IN IF ~dst.result.ok
            THEN [w |-> dst.w, old_surface |-> NoSurface, result |-> dst.result]
            ELSE
              LET w1 == RenderbuffersDestroy(dst.w, framebuffer.renderbuffers)
                  w2 == DeleteFramebuffers(w1, framebuffer.framebuffer_object)
              IN [w |-> w2, old_surface |-> dst.result.value, result |-> Ok(0)]

\* Device::destroy_framebuffer -> (Option<Surface>, Result<(), Error>)
destroy_framebuffer(w, c, f) ==
    LET framebuffer == w.contexts[c].framebuffer
        \* mem::replace(&mut context.framebuffer, Framebuffer::None)
        w0 == [w EXCEPT !.contexts[c].framebuffer = FramebufferNone]
    IN IF framebuffer.tag = "None"
       THEN [w |-> w0, old_surface |-> NoSurface, result |-> Ok(0)]
       ELSE IF framebuffer.tag = "Window"
       THEN \* unreachable!()
            [w |-> w0, old_surface |-> NoSurface, result |-> Panic]
       ELSE
         LET dst == destroy_surface_texture(w0, framebuffer.color_surface_texture,
                                            f.destroy_surface_texture)
         IN IF ~dst.result.ok
            THEN [w |-> dst.w, old_surface |-> NoSurface, result |-> dst.result]
            ELSE
              LET w1 == RenderbuffersDestroy(dst.w, framebuffer.renderbuffers)
                  w2 == DeleteFramebuffers(w1, framebuffer.framebuffer_object)
              IN [w |-> w2, old_surface |-> dst.result.value, result |-> Ok(0)]

\* replace_color_surface_in_existing_framebuffer that binds the new texture but
\* leaves the old SurfaceTexture in the Framebuffer while destroying it
replace_color_surface_in_existing_framebuffer_NoSwap(w, c, new_color_surface, f) ==
    LET cst == create_surface_texture(w, new_color_surface, f.create_surface_texture)
    IN IF ~cst.result.ok
       THEN [w |-> cst.w, result |-> cst.result]
       ELSE
         LET framebuffer == cst.w.contexts[c].framebuffer
             w1 == Call(cst.w, "gl::FramebufferTexture2D", cst.surface_texture.gl_texture)
             dst == destroy_surface_texture(w1, framebuffer.color_surface_texture,
                                            f.destroy_surface_texture)
         IN [w |-> dst.w, result |-> dst.result]

\* Device::replace_color_surface_in_existing_framebuffer -> Result<Surface, Error>
replace_color_surface_in_existing_framebuffer(w, c, new_color_surface, f) ==
    LET cst == create_surface_texture(w, new_color_surface, f.create_surface_texture)
    IN IF ~cst.result.ok
       THEN [w |-> cst.w, result |-> cst.result]
       ELSE
         LET framebuffer == cst.w.contexts[c].framebuffer
             w1 == Call(cst.w, "gl::FramebufferTexture2D", cst.surface_texture.gl_texture)
             \* mem::replace(framebuffer_color_surface_texture, new_color_surface_texture)
             old_color_surface_texture == framebuffer.color_surface_texture
             w2 == [w1 EXCEPT !.contexts[c].framebuffer.color_surface_texture =
                       cst.surface_texture]
             dst == destroy_surface_texture(w2, old_color_surface_texture,
                                            f.destroy_surface_texture)
         IN [w |-> dst.w, result |-> dst.result]

\* replace_context_color_surface with the test for a Window framebuffer, the
\* fast path and the `?` after make_context_current switched on or off
replace_context_color_surface_Variant(w, c, new_color_surface, f,
                                      checkWindow, fastPath, propagate) ==
    IF checkWindow /\ w.contexts[c].framebuffer.tag = "Window"
    THEN [w |-> w, result |-> Err("WindowAttached")]
    ELSE
      LET mc == make_context_current(w, c, f.make_current)
      IN IF propagate /\ ~mc.result.ok
         THEN [w |-> mc.w, result |-> mc.result]
         ELSE
           LET w1 == Call(mc.w, "gl::Flush", 0)
               framebuffer == w1.contexts[c].framebuffer
               can_modify_existing_framebuffer ==
                   IF fastPath /\ framebuffer.tag = "Object"
                   THEN Descriptor(framebuffer.color_surface_texture.surface).size =
                            Descriptor(new_color_surface).size
                   ELSE FALSE
               df == destroy_framebuffer(w1, c, f)
               cf == create_framebuffer(df.w, c, new_color_surface, f)
               DropOld(wx) == IF df.old_surface # NoSurface
                              THEN destroy_surface(wx, df.old_surface, f.destroy_surface).w
                              ELSE wx
           IN IF can_modify_existing_framebuffer
              THEN replace_color_surface_in_existing_framebuffer(w1, c, new_color_surface, f)
              ELSE IF ~df.result.ok
                   THEN [w |-> DropOld(df.w), result |-> df.result]
                   ELSE IF ~cf.result.ok
                        THEN [w |-> DropOld(cf.w), result |-> cf.result]
                        ELSE [w |-> cf.w, result |-> Ok(df.old_surface)]

\* replace_context_color_surface without the WindowAttached early return
replace_context_color_surface_NoWindowCheck(w, c, new_color_surface, f) ==
    replace_context_color_surface_Variant(w, c, new_color_surface, f, FALSE, TRUE, TRUE)

\* replace_context_color_surface that never takes the fast path
replace_context_color_surface_AlwaysSlow(w, c, new_color_surface, f) ==
    replace_context_color_surface_Variant(w, c, new_color_surface, f, TRUE, FALSE, TRUE)

\* replace_context_color_surface that goes on when make_context_current failed
replace_context_color_surface_IgnoresMakeCurrent(w, c, new_color_surface, f) ==
    replace_context_color_surface_Variant(w, c, new_color_surface, f, TRUE, TRUE, FALSE)

\* Device::replace_context_color_surface -> Result<Option<Surface>, Error>
replace_context_color_surface(w, c, new_color_surface, f) ==
    IF w.contexts[c].framebuffer.tag = "Window"
    THEN [w |-> w, result |-> Err("WindowAttached")]
    ELSE
      LET mc == make_context_current(w, c, f.make_current)
      IN IF ~mc.result.ok
         THEN [w |-> mc.w, result |-> mc.result]
         ELSE
           LET w1 == Call(mc.w, "gl::Flush", 0)
               framebuffer == w1.contexts[c].framebuffer
               can_modify_existing_framebuffer ==
                   IF framebuffer.tag = "Object"
                   THEN Descriptor(framebuffer.color_surface_texture.surface).size =
                            Descriptor(new_color_surface).size
                   ELSE FALSE
               df == destroy_framebuffer(w1, c, f)
               cf == create_framebuffer(df.w, c, new_color_surface, f)
               \* drop(self.destroy_surface(context, old_surface))
               DropOld(wx) == IF df.old_surface # NoSurface
                              THEN destroy_surface(wx, df.old_surface, f.destroy_surface).w
                              ELSE wx
           IN IF can_modify_existing_framebuffer
              THEN replace_color_surface_in_existing_framebuffer(w1, c, new_color_surface, f)
              ELSE IF ~df.result.ok
                   THEN [w |-> DropOld(df.w), result |-> df.result]
                   ELSE IF ~cf.result.ok
                        THEN [w |-> DropOld(cf.w), result |-> cf.result]
                        ELSE [w |-> cf.w, result |-> Ok(df.old_surface)]

\* Device::context_gl_info -> &GLInfo
context_gl_info(context) == context.gl_info

\* Device::context_color_surface -> Option<&Surface>
context_color_surface(context) ==
    IF context.framebuffer.tag = "Object"
    THEN context.framebuffer.color_surface_texture.surface
    ELSE NoSurface

\* Device::context_surface_framebuffer_object -> Result<GLuint, Error>
context_surface_framebuffer_object(context) ==
    CASE context.framebuffer.tag = "None" -> Err("NoSurfaceAttached")
      [] context.framebuffer.tag = "Window" -> Err("WindowAttached")
      [] OTHER -> Ok(context.framebuffer.framebuffer_object)

\* a Drop that panics although the thread is already unwinding
drop_context_IgnoresPanicking(context, panicking) ==
    IF context.cgl_context # NULL
    THEN [result |-> Panic,
          trace |-> <<<<"thread::panicking", IF panicking THEN 1 ELSE 0>>>>]
    ELSE [result |-> Ok(0), trace |-> <<>>]

\* impl Drop for Context: `!is_null() && !thread::panicking()` asks the thread
\* only when the handle is not null
drop_context(context, panicking) ==
    IF context.cgl_context # NULL
    THEN [result |-> IF ~panicking THEN Panic ELSE Ok(0),
          trace |-> <<<<"thread::panicking", IF panicking THEN 1 ELSE 0>>>>]
    ELSE [result |-> Ok(0), trace |-> <<>>]

\* ---- records of the state ----
NoAttributes == [api |-> "GL", major |-> 0, flags |-> {}]
NoLocal ==
    [op |-> "none", attributes |-> NoAttributes, pixel_format |-> {},
     cgl_context |-> NULL, framebuffer |-> FramebufferNone]

\* GLInfo::new(&attributes)
GLInfoNew(attributes) ==
    [flags |-> attributes.flags, major |-> attributes.major, populated |-> FALSE]

NoContext ==
    [cgl_context |-> NULL, framebuffer |-> FramebufferNone, color_surface |-> "Unset",
     gl_info |-> GLInfoNew(NoAttributes), releaser |-> "None", dropped |-> FALSE]

\* What `last` records of a call.
CallRecord(op, t, c, surface, before, result, trace) ==
    [op |-> op, thread |-> t, context |-> c, surface |-> surface, before |-> before,
     result |-> result, trace |-> trace]

\* The GLX side (platform/glx/gl_context.rs): the GLContext values made so far,
\* the context current on each thread, the native contexts destroyed.
GLXInit ==
    [contexts |-> <<>>, current |-> [t \in Threads |-> NULL], destroyed |-> {},
     pixmapsDestroyed |-> {}]

Init ==
    /\ pc = [t \in Threads |-> "idle"]
    /\ local = [t \in Threads |-> NoLocal]
    /\ mutex = [holder |-> 0, previous_context_created |-> FALSE, poisoned |-> FALSE]
    /\ loadCount = 0
    /\ contexts = <<>>
    /\ gl = [textures |-> {}, framebuffers |-> {}, renderbuffers |-> {},
             surfacesDestroyed |-> {}, doubleFrees |-> 0,
             nextHandle |-> 1, nativeAlive |-> {},
             pixelFormat |-> [c \in ContextIds |-> {}],
             glx |-> GLXInit,
             viewport |-> [c \in ContextIds |-> <<0, 0, 0, 0>>],
             released |-> [c \in ContextIds |-> 0]]
    /\ callerSurfaces = Surfaces
    /\ last = CallRecord("none", 0, 0, NoSurface, NoContext, Pending, <<>>)

\* Native context handles not yet handed out, less those the running creations
\* will still ask for.
HandlesLeft ==
    MaxContexts - (gl.nextHandle - 1)
        - Cardinality({t \in Threads : pc[t] # "idle" /\ local[t].cgl_context = NULL})

\* drop of the MutexGuard at the end of the call
Unlock == [mutex EXCEPT !.holder = 0]

\* return from a creation call running on thread t
Return(t, result, trace) ==
    /\ pc' = [pc EXCEPT ![t] = "idle"]
    /\ local' = [local EXCEPT ![t] = NoLocal]
    /\ last' = CallRecord(local[t].op, t, 0, NoSurface, NoContext, result, trace)

\* a step inside a creation call that does not return yet
Goto(t, label, trace) ==
    /\ pc' = [pc EXCEPT ![t] = label]
    /\ last' = CallRecord(local[t].op, t, 0, NoSurface, NoContext, Pending, trace)

\* ---- Device::create_context, statement by statement ----

\* line 171: the call
create_context_begin(t, attributes) ==
    /\ pc[t] = "idle"
    /\ HandlesLeft > 0
    /\ pc' = [pc EXCEPT ![t] = "cc_flavor"]
    /\ local' = [local EXCEPT ![t] = [NoLocal EXCEPT !.op = "create_context",
                                                    !.attributes = attributes]]
    /\ last' = CallRecord("create_context", t, 0, NoSurface, NoContext, Pending, <<>>)
    /\ UNCHANGED <<mutex, loadCount, contexts, gl, callerSurfaces>>

\* a test of the flavor that lets GLES through
create_context_check_flavor_AcceptsGLES(t) ==
    /\ pc[t] = "cc_flavor"
    /\ Goto(t, "cc_lock", <<>>)
    /\ UNCHANGED <<local, mutex, loadCount, contexts, gl, callerSurfaces>>

\* lines 172-174: the GLES early return, taken before the lock
create_context_check_flavor(t) ==
    /\ pc[t] = "cc_flavor"
    /\ IF local[t].attributes.api = "GLES"
       THEN Return(t, Err("UnsupportedGLType"), <<>>)
       ELSE /\ Goto(t, "cc_lock", <<>>)
            /\ UNCHANGED local
    /\ UNCHANGED <<mutex, loadCount, contexts, gl, callerSurfaces>>

\* a lock that does not wait for the holder
create_context_lock_NoWait(t) ==
    /\ pc[t] = "cc_lock"
    /\ IF mutex.poisoned
       THEN /\ pc' = [pc EXCEPT ![t] = "idle"]
            /\ local' = [local EXCEPT ![t] = NoLocal]
            /\ UNCHANGED <<mutex, last>>
       ELSE /\ mutex' = [mutex EXCEPT !.holder = t]
            /\ pc' = [pc EXCEPT ![t] = "cc_choose"]
            /\ UNCHANGED <<local, last>>
    /\ UNCHANGED <<loadCount, contexts, gl, callerSurfaces>>

\* line 176: CREATE_CONTEXT_MUTEX.lock().unwrap()
create_context_lock(t) ==
    /\ pc[t] = "cc_lock"
    /\ mutex.holder = 0
    /\ IF mutex.poisoned
       THEN /\ Return(t, Panic, <<>>)
            /\ UNCHANGED mutex
       ELSE /\ mutex' = [mutex EXCEPT !.holder = t]
            /\ Goto(t, "cc_choose", <<>>)
            /\ UNCHANGED local
    /\ UNCHANGED <<loadCount, contexts, gl, callerSurfaces>>

\* lines 178-199: CGLChoosePixelFormat is asked for the profile only; the format
\* it picks has any of the alpha, depth and stencil buffers (pixel_format)
create_context_choose_pixel_format(t, err, pixel_format_count, pixel_format) ==
    /\ pc[t] = "cc_choose"
    /\ LET trace == <<<<"CGLChoosePixelFormat", pixel_format_count>>, <<"CGLError", err>>>>
       IN CASE err # kCGLNoError ->
                 /\ Return(t, ErrWith("PixelFormatSelectionFailed", err), trace)
                 /\ mutex' = Unlock
            [] err = kCGLNoError /\ pixel_format_count = 0 ->
                 /\ Return(t, Err("NoPixelFormatFound"), trace)
                 /\ mutex' = Unlock
            [] OTHER ->
                 /\ local' = [local EXCEPT ![t].pixel_format = pixel_format]
                 /\ Goto(t, "cc_create", trace)
                 /\ UNCHANGED mutex
    /\ UNCHANGED <<loadCount, contexts, gl, callerSurfaces>>

\* CGLCreateContext whose failure is reported as a failure to make current
create_context_create_WrongKind(t, err) ==
    /\ pc[t] = "cc_create"
    /\ IF err # kCGLNoError
       THEN /\ Return(t, ErrWith("MakeCurrentFailed", err),
                      <<<<"CGLCreateContext", NULL>>, <<"CGLError", err>>>>)
            /\ mutex' = Unlock
            /\ UNCHANGED gl
       ELSE /\ gl' = [gl EXCEPT !.nextHandle = @ + 1, !.nativeAlive = @ \cup {gl.nextHandle},
                             !.pixelFormat[gl.nextHandle] = local[t].pixel_format]
            /\ local' = [local EXCEPT ![t].cgl_context = gl.nextHandle]
            /\ Goto(t, "cc_current", <<<<"CGLCreateContext", gl.nextHandle>>>>)
            /\ UNCHANGED mutex
    /\ UNCHANGED <<loadCount, contexts, callerSurfaces>>

\* lines 201-207: CGLCreateContext
create_context_create(t, err) ==
    /\ pc[t] = "cc_create"
    /\ IF err # kCGLNoError
       THEN /\ Return(t, ErrWith("ContextCreationFailed", err),
                      <<<<"CGLCreateContext", NULL>>, <<"CGLError", err>>>>)
            /\ mutex' = Unlock
            /\ UNCHANGED gl
       ELSE /\ gl' = [gl EXCEPT !.nextHandle = @ + 1, !.nativeAlive = @ \cup {gl.nextHandle},
                             !.pixelFormat[gl.nextHandle] = local[t].pixel_format]
            /\ local' = [local EXCEPT ![t].cgl_context = gl.nextHandle]
            /\ Goto(t, "cc_current", <<<<"CGLCreateContext", gl.nextHandle>>>>)
            /\ UNCHANGED mutex
    /\ UNCHANGED <<loadCount, contexts, callerSurfaces>>

\* create_context with the test of the flag inverted: the load is skipped when
\* nothing was loaded before
create_context_make_current_InvertedFlag(t, err) ==
    /\ pc[t] = "cc_current"
    /\ IF err # kCGLNoError
       THEN /\ Return(t, ErrWith("MakeCurrentFailed", err),
                      <<<<"CGLSetCurrentContext", local[t].cgl_context>>,
                        <<"CGLError", err>>>>)
            /\ mutex' = Unlock
            /\ UNCHANGED loadCount
       ELSE IF mutex.previous_context_created
            THEN /\ loadCount' = loadCount + 1
                 /\ Goto(t, "cc_load", <<<<"CGLSetCurrentContext", local[t].cgl_context>>,
                                          <<"gl::load_with", 0>>>>)
                 /\ UNCHANGED <<mutex, local>>
            ELSE /\ Goto(t, "cc_populate",
                         <<<<"CGLSetCurrentContext", local[t].cgl_context>>>>)
                 /\ UNCHANGED <<mutex, local, loadCount>>
    /\ UNCHANGED <<contexts, gl, callerSurfaces>>

\* create_context that returns the make-current error with the mutex still held
create_context_make_current_KeepsLock(t, err) ==
    /\ pc[t] = "cc_current"
    /\ IF err # kCGLNoError
       THEN /\ Return(t, ErrWith("MakeCurrentFailed", err),
                      <<<<"CGLSetCurrentContext", local[t].cgl_context>>,
                        <<"CGLError", err>>>>)
            /\ UNCHANGED <<mutex, loadCount>>
       ELSE IF ~mutex.previous_context_created
            THEN /\ loadCount' = loadCount + 1
                 /\ Goto(t, "cc_load", <<<<"CGLSetCurrentContext", local[t].cgl_context>>,
                                          <<"gl::load_with", 0>>>>)
                 /\ UNCHANGED <<mutex, local>>
            ELSE /\ Goto(t, "cc_populate",
                         <<<<"CGLSetCurrentContext", local[t].cgl_context>>>>)
                 /\ UNCHANGED <<mutex, local, loadCount>>
    /\ UNCHANGED <<contexts, gl, callerSurfaces>>

\* lines 209-228: CGLSetCurrentContext, the Context value, the test of the flag
\* and the start of gl::load_with
create_context_make_current(t, err) ==
    /\ pc[t] = "cc_current"
    /\ IF err # kCGLNoError
       THEN /\ Return(t, ErrWith("MakeCurrentFailed", err),
                      <<<<"CGLSetCurrentContext", local[t].cgl_context>>,
                        <<"CGLError", err>>>>)
            /\ mutex' = Unlock
            /\ UNCHANGED loadCount
       ELSE IF ~mutex.previous_context_created
            THEN /\ loadCount' = loadCount + 1
                 /\ Goto(t, "cc_load", <<<<"CGLSetCurrentContext", local[t].cgl_context>>,
                                          <<"gl::load_with", 0>>>>)
                 /\ UNCHANGED <<mutex, local>>
            ELSE /\ Goto(t, "cc_populate",
                         <<<<"CGLSetCurrentContext", local[t].cgl_context>>>>)
                 /\ UNCHANGED <<mutex, local, loadCount>>
    /\ UNCHANGED <<contexts, gl, callerSurfaces>>

\* lines 224-227: gl::load_with returns, *previous_context_created = true
create_context_loaded(t) ==
    /\ pc[t] = "cc_load"
    /\ mutex' = [mutex EXCEPT !.previous_context_created = TRUE]
    /\ Goto(t, "cc_populate", <<>>)
    /\ UNCHANGED <<local, loadCount, contexts, gl, callerSurfaces>>

\* lines 216-221, 230-232: context.gl_info.populate(); Ok(context); the guard drops
create_context_return(t) ==
    /\ pc[t] = "cc_populate"
    /\ contexts' = Append(contexts,
           [cgl_context |-> local[t].cgl_context,
            framebuffer |-> FramebufferNone,
            color_surface |-> "Unset",
            gl_info |-> [GLInfoNew(local[t].attributes) EXCEPT !.populated = TRUE],
            releaser |-> "OwnedCGLContext",
            dropped |-> FALSE])
    /\ mutex' = Unlock
    /\ pc' = [pc EXCEPT ![t] = "idle"]
    /\ local' = [local EXCEPT ![t] = NoLocal]
    /\ last' = CallRecord("create_context", t, Len(contexts) + 1, NoSurface, NoContext,
                          Ok(Len(contexts) + 1), <<<<"GLInfo::populate", 0>>>>)
    /\ UNCHANGED <<loadCount, gl, callerSurfaces>>

\* ---- Device::from_current_context, statement by statement ----

\* line 60: the call; the caller vouches that a native context is current
from_current_context_begin(t) ==
    /\ pc[t] = "idle"
    /\ HandlesLeft > 0
    /\ pc' = [pc EXCEPT ![t] = "fc_lock"]
    /\ local' = [local EXCEPT ![t] = [NoLocal EXCEPT !.op = "from_current_context"]]
    /\ last' = CallRecord("from_current_context", t, 0, NoSurface, NoContext, Pending, <<>>)
    /\ UNCHANGED <<mutex, loadCount, contexts, gl, callerSurfaces>>

\* line 61: CREATE_CONTEXT_MUTEX.lock().unwrap()
from_current_context_lock(t) ==
    /\ pc[t] = "fc_lock"
    /\ mutex.holder = 0
    /\ IF mutex.poisoned
       THEN /\ Return(t, Panic, <<>>)
            /\ UNCHANGED mutex
       ELSE /\ mutex' = [mutex EXCEPT !.holder = t]
            /\ Goto(t, "fc_query", <<>>)
            /\ UNCHANGED local
    /\ UNCHANGED <<loadCount, contexts, gl, callerSurfaces>>

\* lines 63-158: the queries of the current display, context, device and config
\* (an assert on a failed query panics with the guard held, which poisons the
\* mutex), the Context value, the test of the flag and the start of gl::load_with.
\* The Context literal of lines 146-151 names no framebuffer: the value read by the
\* later operations is any variant that owns nothing.
from_current_context_query(t, fail, flags, major, framebuffer) ==
    /\ pc[t] = "fc_query"
    /\ IF fail
       THEN /\ Return(t, Panic, <<<<"egl::QueryContext", 0>>>>)
            /\ mutex' = [mutex EXCEPT !.holder = 0, !.poisoned = TRUE]
            /\ UNCHANGED <<gl, loadCount>>
       ELSE /\ gl' = [gl EXCEPT !.nextHandle = @ + 1, !.nativeAlive = @ \cup {gl.nextHandle},
                             !.pixelFormat[gl.nextHandle] = flags]
            /\ local' = [local EXCEPT ![t].cgl_context = gl.nextHandle,
                                      ![t].pixel_format = flags,
                                      ![t].attributes = [api |-> "GL", major |-> major,
                                                         flags |-> flags],
                                      ![t].framebuffer = framebuffer]
            /\ IF ~mutex.previous_context_created
               THEN /\ loadCount' = loadCount + 1
                    /\ Goto(t, "fc_load", <<<<"egl::GetCurrentContext", gl.nextHandle>>,
                                             <<"gl::load_with", 0>>>>)
               ELSE /\ Goto(t, "fc_populate", <<<<"egl::GetCurrentContext", gl.nextHandle>>>>)
                    /\ UNCHANGED loadCount
            /\ UNCHANGED mutex
    /\ UNCHANGED <<contexts, callerSurfaces>>

\* lines 154-157: gl::load_with returns, *previous_context_created = true
from_current_context_loaded(t) ==
    /\ pc[t] = "fc_load"
    /\ mutex' = [mutex EXCEPT !.previous_context_created = TRUE]
    /\ Goto(t, "fc_populate", <<>>)
    /\ UNCHANGED <<local, loadCount, contexts, gl, callerSurfaces>>

\* lines 146-151, 160-161: context.gl_info.populate(); Ok((device, context))
from_current_context_return(t) ==
    /\ pc[t] = "fc_populate"
    /\ contexts' = Append(contexts,
           [cgl_context |-> local[t].cgl_context,
            framebuffer |-> local[t].framebuffer,
            color_surface |-> "External",
            gl_info |-> [GLInfoNew(local[t].attributes) EXCEPT !.populated = TRUE],
            releaser |-> "Custom",
            dropped |-> FALSE])
    /\ mutex' = Unlock
    /\ pc' = [pc EXCEPT ![t] = "idle"]
    /\ local' = [local EXCEPT ![t] = NoLocal]
    /\ last' = CallRecord("from_current_context", t, Len(contexts) + 1, NoSurface,
                          NoContext, Ok(Len(contexts) + 1), <<<<"GLInfo::populate", 0>>>>)
    /\ UNCHANGED <<loadCount, gl, callerSurfaces>>

\* ---- calls of the caller on an existing Context ----

\* self.replace_context_color_surface(&mut context, new_color_surface): the
\* Surface is moved in; what comes back in Ok(Some(..)) is the caller's again.
ReplaceContextColorSurface(c, new_color_surface, f) ==
    /\ c \in 1..Len(contexts)
    /\ ~contexts[c].dropped
    /\ new_color_surface \in callerSurfaces
    /\ LET r == replace_context_color_surface(World, c, new_color_surface, f)
       IN /\ contexts' = r.w.contexts
          /\ gl' = r.w.gl
          /\ callerSurfaces' = (callerSurfaces \ {new_color_surface}) \cup
                 (IF r.result.ok /\ r.result.value # NoSurface
                  THEN {r.result.value} ELSE {})
          /\ last' = CallRecord("replace_context_color_surface", 0, c, new_color_surface,
                                contexts[c], r.result, r.w.trace)
    /\ UNCHANGED <<pc, local, mutex, loadCount>>

\* self.destroy_context(&mut context)
DestroyContext(c, f) ==
    /\ c \in 1..Len(contexts)
    /\ ~contexts[c].dropped
    /\ LET r == destroy_context(World, c, f)
       IN /\ contexts' = r.w.contexts
          /\ gl' = r.w.gl
          /\ last' = CallRecord("destroy_context", 0, c, NoSurface, contexts[c],
                                r.result, r.w.trace)
    /\ UNCHANGED <<pc, local, mutex, loadCount, callerSurfaces>>

\* The Context goes out of scope, at the end of a scope (panicking = FALSE) or
\* while the thread unwinds from a panic; it cannot be used afterwards.
DropContext(c, panicking) ==
    /\ c \in 1..Len(contexts)
    /\ ~contexts[c].dropped
    /\ LET r == drop_context(contexts[c], panicking)
       IN /\ contexts' = [contexts EXCEPT ![c].dropped = TRUE]
          /\ last' = CallRecord("drop", 0, c, NoSurface, contexts[c], r.result, r.trace)
    /\ UNCHANGED <<pc, local, mutex, loadCount, gl, callerSurfaces>>

\* create_context and from_current_context running on thread t
Creation(t, requests) ==
    \/ \E attributes \in requests : create_context_begin(t, attributes)
    \/ create_context_check_flavor(t)
    \/ create_context_lock(t)
    \/ \E err \in {kCGLNoError} \cup CGLErrors, pixel_format_count \in {0, 1},
          pixel_format \in {a.flags : a \in requests} :
           create_context_choose_pixel_format(t, err, pixel_format_count, pixel_format)
    \/ \E err \in {kCGLNoError} \cup CGLErrors : create_context_create(t, err)
    \/ \E err \in {kCGLNoError} \cup CGLErrors : create_context_make_current(t, err)
    \/ create_context_loaded(t)
    \/ create_context_return(t)
    \/ from_current_context_begin(t)
    \/ from_current_context_lock(t)
    \/ \E fail \in BOOLEAN, config \in {a \in requests : a.api = "GL"},
          framebuffer \in {FramebufferNone, FramebufferWindow} :
           from_current_context_query(t, fail, config.flags, config.major, framebuffer)
    \/ from_current_context_loaded(t)
    \/ from_current_context_return(t)

\* Threads create and adopt contexts concurrently while Contexts already
\* returned are destroyed.
NextCreation ==
    \/ \E t \in Threads : Creation(t, AttributeSets)
    \/ \E c \in ContextIds, f \in Failures : DestroyContext(c, f)

SpecCreation == Init /\ [][NextCreation]_vars

\* the steps of thread t between the call and the lock, and after the lock: each
\* is a synchronous native call or a statement, which returns
RunningCreation(t) ==
    \/ create_context_check_flavor(t)
    \/ \E err \in {kCGLNoError} \cup CGLErrors, pixel_format_count \in {0, 1},
          pixel_format \in {a.flags : a \in AttributeSets} :
           create_context_choose_pixel_format(t, err, pixel_format_count, pixel_format)
    \/ \E err \in {kCGLNoError} \cup CGLErrors : create_context_create(t, err)
    \/ \E err \in {kCGLNoError} \cup CGLErrors : create_context_make_current(t, err)
    \/ create_context_loaded(t)
    \/ create_context_return(t)
    \/ \E fail \in BOOLEAN, config \in {a \in AttributeSets : a.api = "GL"},
          framebuffer \in {FramebufferNone, FramebufferWindow} :
           from_current_context_query(t, fail, config.flags, config.major, framebuffer)
    \/ from_current_context_loaded(t)
    \/ from_current_context_return(t)

\* CREATE_CONTEXT_MUTEX.lock() on thread t
Lock(t) == create_context_lock(t) \/ from_current_context_lock(t)

\* Concurrent creation where every running call goes on to its return and the
\* mutex, whenever it is free again and again, is given to each waiting thread.
SpecCreationFair ==
    SpecCreation /\ \A t \in Threads : WF_vars(RunningCreation(t)) /\ SF_vars(Lock(t))

\* One thread makes every call, each returning before the next is made.
Caller == CHOOSE t \in Threads : \A u \in Threads : t <= u

\* The attributes play no part in the life of a framebuffer: one GL request and
\* the GLES one.
LifecycleAttributeSets == {a \in AttributeSets : a.flags = {}}

NextLifecycle ==
    \/ Creation(Caller, LifecycleAttributeSets)
    \/ /\ pc[Caller] = "idle"
       /\ \E c \in ContextIds, s \in Surfaces, f \in Failures :
              ReplaceContextColorSurface(c, s, f)
    \/ /\ pc[Caller] = "idle"
       /\ \E c \in ContextIds, f \in Failures : DestroyContext(c, f)

SpecLifecycle == Init /\ [][NextLifecycle]_vars

\* The same caller, who also lets Contexts go out of scope.
NextDrop ==
    \/ NextLifecycle
    \/ /\ pc[Caller] = "idle"
       /\ \E c \in ContextIds, panicking \in BOOLEAN : DropContext(c, panicking)

SpecDrop == Init /\ [][NextDrop]_vars

\* Every thread and the callers of existing Contexts, freely interleaved.
Next ==
    \/ \E t \in Threads : Creation(t, AttributeSets)
    \/ \E c \in ContextIds, s \in Surfaces, f \in Failures :
           ReplaceContextColorSurface(c, s, f)
    \/ \E c \in ContextIds, f \in Failures : DestroyContext(c, f)
    \/ \E c \in ContextIds, panicking \in BOOLEAN : DropContext(c, panicking)

Spec == Init /\ [][Next]_vars

\* ---- platform/glx/gl_context.rs ----

\* make_current that binds without asking which context is current
make_current_AlwaysBinds(glx, t, self, native_result) ==
    LET trace == <<<<"glx::GetCurrentContext", glx.current[t]>>,
                   <<"glx::MakeCurrent", self.native_context>>,
                   <<"Bool", native_result>>>>
    IN IF native_result = 0
       THEN [glx |-> glx, result |-> Err("glx::MakeContextCurrent"), trace |-> trace]
       ELSE [glx |-> [glx EXCEPT !.current[t] = self.native_context],
             result |-> Ok(0), trace |-> trace]

\* GLContext::make_current on thread t; native_result is what glx::MakeCurrent
\* returns if it is called
make_current(glx, t, self, native_result) ==
    LET asked == <<<<"glx::GetCurrentContext", glx.current[t]>>>>
        bound == asked \o <<<<"glx::MakeCurrent", self.native_context>>,
                            <<"Bool", native_result>>>>
    IN IF glx.current[t] # self.native_context
       THEN IF native_result = 0
            THEN [glx |-> glx, result |-> Err("glx::MakeContextCurrent"), trace |-> bound]
            ELSE [glx |-> [glx EXCEPT !.current[t] = self.native_context],
                  result |-> Ok(0), trace |-> bound]
       ELSE [glx |-> glx, result |-> Ok(0), trace |-> asked]

\* what glx::MakeCurrent can return on thread t: it cannot bind a context that
\* was destroyed or is current on another thread
MakeCurrentResults(glx, t, self) ==
    IF \/ self.native_context \in glx.destroyed
       \/ \E u \in Threads \ {t} : glx.current[u] = self.native_context
    THEN {0}
    ELSE {0, 1}

\* GLContext::new: glx::CreateNewContext returns a context (native # 0) or 0
GLContextNew(t, native, delete_drawable_on_drop) ==
    /\ Len(gl.glx.contexts) < MaxContexts
    /\ IF native = NULL
       THEN /\ last' = CallRecord("GLContext::new", t, 0, NoSurface, NoContext,
                                  Err("Error creating native glx context"),
                                  <<<<"glx::CreateNewContext", NULL>>>>)
            /\ UNCHANGED gl
       ELSE /\ gl' = [gl EXCEPT !.glx.contexts =
                         Append(@, [native_context |-> native,
                                    delete_drawable_on_drop |-> delete_drawable_on_drop,
                                    dropped |-> FALSE])]
            /\ last' = CallRecord("GLContext::new", t, Len(gl.glx.contexts) + 1, NoSurface,
                                  NoContext, Ok(Len(gl.glx.contexts) + 1),
                                  <<<<"glx::CreateNewContext", native>>>>)
    /\ UNCHANGED <<pc, local, mutex, loadCount, contexts, callerSurfaces>>

\* self.make_current() called on thread t
GLContextMakeCurrent(t, g, native_result) ==
    /\ g \in 1..Len(gl.glx.contexts)
    /\ ~gl.glx.contexts[g].dropped
    /\ native_result \in MakeCurrentResults(gl.glx, t, gl.glx.contexts[g])
    /\ LET r == make_current(gl.glx, t, gl.glx.contexts[g], native_result)
       IN /\ gl' = [gl EXCEPT !.glx = r.glx]
          /\ last' = CallRecord("GLContext::make_current", t, g, NoSurface, NoContext,
                                r.result, r.trace)
    /\ UNCHANGED <<pc, local, mutex, loadCount, contexts, callerSurfaces>>

\* impl Drop for GLContext, on thread t: make_current().unwrap(), then
\* glx::DestroyContext and, if asked for, glx::DestroyPixmap
GLContextDrop(t, g, native_result) ==
    /\ g \in 1..Len(gl.glx.contexts)
    /\ ~gl.glx.contexts[g].dropped
    /\ native_result \in MakeCurrentResults(gl.glx, t, gl.glx.contexts[g])
    /\ LET self == gl.glx.contexts[g]
           r == make_current(gl.glx, t, self, native_result)
           gone == [r.glx EXCEPT !.contexts[g].dropped = TRUE]
       IN IF ~r.result.ok
          THEN /\ gl' = [gl EXCEPT !.glx = gone]
               /\ last' = CallRecord("GLContext::drop", t, g, NoSurface, NoContext,
                                     Panic, r.trace)
          ELSE /\ gl' = [gl EXCEPT !.glx =
                            [gone EXCEPT !.destroyed = @ \cup {self.native_context},
                                         !.pixmapsDestroyed =
                                             IF self.delete_drawable_on_drop
                                             THEN @ \cup {self.native_context} ELSE @]]
               /\ last' = CallRecord("GLContext::drop", t, g, NoSurface, NoContext, Ok(0),
                                     r.trace \o <<<<"glx::DestroyContext", self.native_context>>>>
                                       \o (IF self.delete_drawable_on_drop
                                           THEN <<<<"glx::DestroyPixmap", self.native_context>>>>
                                           ELSE <<>>))
    /\ UNCHANGED <<pc, local, mutex, loadCount, contexts, callerSurfaces>>

\* Threads make, bind and drop GLContexts.  glx::CreateNewContext returns 0 or
\* a context not returned before.
NextGLX ==
    \/ \E t \in Threads, native \in {NULL, Len(gl.glx.contexts) + 1},
          delete_drawable_on_drop \in BOOLEAN :
           GLContextNew(t, native, delete_drawable_on_drop)
    \/ \E t \in Threads, g \in ContextIds, native_result \in {0, 1} :
           GLContextMakeCurrent(t, g, native_result)
    \/ \E t \in Threads, g \in ContextIds, native_result \in {0, 1} :
           GLContextDrop(t, g, native_result)

SpecGLX == Init /\ [][NextGLX]_vars

\* ======================= properties =======================

Has(trace, name, id) == \E i \in 1..Len(trace) : trace[i] = <<name, id>>
Count(trace, name, id) == Cardinality({i \in 1..Len(trace) : trace[i] = <<name, id>>})
Names(trace) == {trace[i][1] : i \in 1..Len(trace)}

IsReplace == last.op = "replace_context_color_surface"
IsDestroy == last.op = "destroy_context"
\* the Framebuffer the last call found
Before == last.before.framebuffer

\* ---- C1 ----
\* C1: a destroy_context call on a Context whose handle is already null returns
\* Ok(()), makes no native call and changes neither the Context nor anything on
\* the native side.
C1_DestroyIdempotent ==
    [][\A c \in 1..Len(contexts) :
          (last'.op = "destroy_context" /\ last'.context = c
             /\ contexts[c].cgl_context = NULL)
          => /\ last'.result = Ok(0)
             /\ last'.trace = <<>>
             /\ contexts' = contexts
             /\ gl' = gl]_vars

C1_Witness ==
    /\ IsDestroy
    /\ last.before.cgl_context = NULL
    /\ gl.released[last.context] = 1
    /\ last.result = Ok(0)

\* ---- C2 ----
\* the statements between taking CREATE_CONTEXT_MUTEX and the return
InsideCreation ==
    {"cc_choose", "cc_create", "cc_current", "cc_load", "cc_populate",
     "fc_query", "fc_load", "fc_populate"}
Loading == {"cc_load", "fc_load"}
WaitingForLock == {"cc_lock", "fc_lock"}

\* C2: gl::load_with is invoked at most once in the process, and no two threads
\* are between the lock and the return of a creation at the same time.
C2_LoadAtMostOnce ==
    /\ loadCount <= 1
    /\ Cardinality({t \in Threads : pc[t] \in InsideCreation}) <= 1

\* one thread is inside the load while another waits for the mutex
C2_Witness ==
    /\ loadCount = 1
    /\ \E t, u \in Threads : pc[t] \in Loading /\ pc[u] \in WaitingForLock

\* ---- C3 ----
\* C3: a thread inside a creation holds the mutex; it reaches
\* gl_info.populate() only with the flag set and no load running; and a Context
\* exists only once the flag is set and the load has finished.
C3_NoUseBeforeLoad ==
    /\ \A t \in Threads : pc[t] \in InsideCreation => mutex.holder = t
    /\ \A t \in Threads :
          pc[t] \in {"cc_populate", "fc_populate"}
          => /\ mutex.previous_context_created
             /\ loadCount = 1
             /\ \A u \in Threads : pc[u] \notin Loading
    /\ Len(contexts) > 0
          => /\ mutex.previous_context_created
             /\ \A u \in Threads : pc[u] \notin Loading

\* a second creation is about to populate while a Context already exists
C3_Witness ==
    /\ Len(contexts) > 0
    /\ \E t \in Threads : pc[t] \in {"cc_populate", "fc_populate"}

\* ---- C4 ----
\* C4: replace_context_color_surface on a Context whose Framebuffer is Window
\* fails with WindowAttached, makes no native call (no make-current, no flush,
\* nothing created or destroyed) and leaves the Context unchanged.
C4_WindowAttached ==
    [][\A c \in 1..Len(contexts) :
          (last'.op = "replace_context_color_surface" /\ last'.context = c
             /\ contexts[c].framebuffer.tag = "Window")
          => /\ last'.result = Err("WindowAttached")
             /\ last'.trace = <<>>
             /\ contexts' = contexts
             /\ gl' = gl]_vars

C4_Witness ==
    /\ IsReplace
    /\ Before.tag = "Window"
    /\ last.result = Err("WindowAttached")
    /\ contexts[last.context].framebuffer.tag = "Window"

\* ---- C5 ----
SameSize ==
    /\ Before.tag = "Object"
    /\ Descriptor(Before.color_surface_texture.surface).size = Descriptor(last.surface).size

\* C5: a successful replace of Surface A by a Surface B of the same size returns
\* Some(A), leaves B as the color surface, keeps the framebuffer object and the
\* Renderbuffers, and neither generates nor deletes a framebuffer object or
\* Renderbuffers.
C5_FastPathRoundTrip ==
    (IsReplace /\ SameSize /\ last.result.ok)
    => LET framebuffer == contexts[last.context].framebuffer
       IN /\ last.result.value = Before.color_surface_texture.surface
          /\ framebuffer.tag = "Object"
          /\ framebuffer.color_surface_texture.surface = last.surface
          /\ context_color_surface(contexts[last.context]) = last.surface
          /\ framebuffer.framebuffer_object = Before.framebuffer_object
          /\ framebuffer.renderbuffers = Before.renderbuffers
          /\ Names(last.trace) \cap {"gl::GenFramebuffers", "gl::DeleteFramebuffers",
                                     "Renderbuffers::new", "Renderbuffers::destroy"} = {}

C5_Witness ==
    /\ IsReplace /\ SameSize /\ last.result.ok
    /\ last.result.value # last.surface
    /\ last.result.value \in callerSurfaces

\* ---- C6 ----
\* C6: after every successful replace the Framebuffer is Object wrapping the new
\* surface, the viewport of the context is {0, 0, width, height} of the new
\* surface, and the call returned Some(previous surface) if the Framebuffer was
\* Object before and None if it was None.
C6_ReplacePostcondition ==
    (IsReplace /\ last.result.ok)
    => LET framebuffer == contexts[last.context].framebuffer
           size == Descriptor(last.surface).size
       IN /\ framebuffer.tag = "Object"
          /\ framebuffer.color_surface_texture.surface = last.surface
          /\ gl.viewport[last.context] = <<0, 0, size[1], size[2]>>
          /\ Before.tag = "Object"
                => last.result.value = Before.color_surface_texture.surface
          /\ Before.tag = "None" => last.result.value = NoSurface
          /\ Before.tag \in {"Object", "None"}

\* a 64x64 surface was replaced by a 128x128 one
C6_Witness ==
    /\ IsReplace /\ last.result.ok
    /\ Before.tag = "Object"
    /\ Descriptor(Before.color_surface_texture.surface).size = <<64, 64>>
    /\ Descriptor(last.surface).size = <<128, 128>>
    /\ last.result.value = Before.color_surface_texture.surface
    /\ gl.viewport[last.context] = <<0, 0, 128, 128>>
\* ---- C7 ----
Live == last.before.cgl_context # NULL

\* the last call destroyed the Renderbuffers and the SurfaceTexture it found in
\* the Framebuffer exactly once each
DestroyedOnceEach ==
    /\ Count(last.trace, "Renderbuffers::destroy", Before.renderbuffers.id) = 1
    /\ Count(last.trace, "destroy_surface_texture", Before.color_surface_texture.gl_texture) = 1

\* C7 as stated: nothing is destroyed twice, and destroy_context on any Context
\* whose Framebuffer is Object destroys its Renderbuffers and SurfaceTexture
\* exactly once each.
C7_Original ==
    /\ gl.doubleFrees = 0
    /\ (IsDestroy /\ Before.tag = "Object") => DestroyedOnceEach

\* C7 amended: nothing is destroyed twice, and destroy_context on a Context whose
\* handle is not null and whose Framebuffer is Object destroys its Renderbuffers
\* and SurfaceTexture exactly once each.
C7_NoDoubleFree ==
    /\ gl.doubleFrees = 0
    /\ (IsDestroy /\ Live /\ Before.tag = "Object") => DestroyedOnceEach

C7_Witness ==
    /\ IsDestroy /\ Live /\ Before.tag = "Object"
    /\ DestroyedOnceEach
    /\ Before.renderbuffers.id \notin gl.renderbuffers

\* ---- C8 ----
\* C8: the Releaser of a Context is invoked at most once, exactly when the
\* handle went from non-null to null; the destroy_context that finds a non-null
\* handle invokes it once on that handle, whatever the teardown reported, and
\* leaves the handle null.
C8_ReleasedOnce ==
    /\ \A c \in 1..Len(contexts) :
          /\ gl.released[c] <= 1
          /\ gl.released[c] = 1 <=> contexts[c].cgl_context = NULL
    /\ (IsDestroy /\ Live)
          => /\ Count(last.trace, "ReleaseContext::release", last.before.cgl_context) = 1
             /\ contexts[last.context].cgl_context = NULL
    /\ (IsDestroy /\ ~Live) => "ReleaseContext::release" \notin Names(last.trace)
    /\ ~IsDestroy => "ReleaseContext::release" \notin Names(last.trace)

\* a destroy_context whose framebuffer teardown failed still released the handle
C8_Witness ==
    /\ IsDestroy /\ Live
    /\ Before.tag = "Object"
    /\ ~last.result.ok
    /\ gl.released[last.context] = 1
    /\ contexts[last.context].cgl_context = NULL

\* ---- C9 ----
Attached(c) == contexts[c].framebuffer.tag = "Object"
SurfaceOf(c) == contexts[c].framebuffer.color_surface_texture.surface
TextureOf(c) == contexts[c].framebuffer.color_surface_texture.gl_texture

\* C9: no two Framebuffers hold the same SurfaceTexture or Surface; a Surface
\* held by a Framebuffer is neither the caller's nor destroyed; the caller holds
\* no destroyed Surface; the Surface a replace returned is the caller's and is
\* held by no Framebuffer.
C9_ExclusiveOwnership ==
    /\ \A c, d \in 1..Len(contexts) :
          (c # d /\ Attached(c) /\ Attached(d))
          => SurfaceOf(c) # SurfaceOf(d) /\ TextureOf(c) # TextureOf(d)
    /\ \A c \in 1..Len(contexts) :
          Attached(c) => /\ SurfaceOf(c) \notin callerSurfaces
                         /\ SurfaceOf(c) \notin gl.surfacesDestroyed
                         /\ TextureOf(c) \in gl.textures
    /\ callerSurfaces \cap gl.surfacesDestroyed = {}
    /\ (IsReplace /\ last.result.ok /\ last.result.value # NoSurface)
          => /\ last.result.value \in callerSurfaces
             /\ \A c \in 1..Len(contexts) : Attached(c) => SurfaceOf(c) # last.result.value

\* two Contexts hold a Surface each, and the last replace gave one back
C9_Witness ==
    /\ \E c, d \in 1..Len(contexts) : c # d /\ Attached(c) /\ Attached(d)
    /\ IsReplace /\ last.result.ok /\ last.result.value # NoSurface

\* ---- C10 ----
\* the teardown of the Object framebuffer the last call found attempted the
\* destruction of its Renderbuffers, framebuffer object and SurfaceTexture
Drained ==
    /\ Has(last.trace, "Renderbuffers::destroy", Before.renderbuffers.id)
    /\ Has(last.trace, "gl::DeleteFramebuffers", Before.framebuffer_object)
    /\ Has(last.trace, "destroy_surface_texture", Before.color_surface_texture.gl_texture)

\* the last call was a replace that went through destroy_framebuffer
TookSlowPath ==
    /\ IsReplace /\ Before.tag = "Object" /\ ~SameSize
    /\ Has(last.trace, "gl::Flush", 0)

\* C10: destroy_context and destroy_framebuffer attempt the destruction of every
\* sub-resource of an Object framebuffer whatever failed before in the call.
C10_DrainAndReport ==
    /\ (IsDestroy /\ Live /\ Before.tag = "Object") => Drained
    /\ TookSlowPath => Drained

\* ---- C11 ----
\* the last call was a slow-path replace that displaced a Surface and failed in
\* destroy_framebuffer or in create_framebuffer
SlowPathFailed ==
    /\ TookSlowPath
    /\ ~last.result.ok

\* C11: a slow-path replace that fails at the teardown or at the re-creation
\* step has destroyed the Surface displaced from the old Object framebuffer
\* before it returns the error.
C11_DisplacedSurfaceDestroyed ==
    SlowPathFailed
    => /\ Has(last.trace, "destroy_surface", Before.color_surface_texture.surface)
       /\ Before.color_surface_texture.surface \in gl.surfacesDestroyed

\* ---- C12 ----
\* the Context is one returned by from_current_context
Adopted(context) == context.releaser = "Custom"

\* C12: a Context returned by from_current_context is tagged External; every
\* replace_context_color_surface on it returns an error and leaves its
\* Framebuffer as it was; such a Context never holds an Object framebuffer.
C12_AdoptedRejectsReplace ==
    /\ \A c \in 1..Len(contexts) :
          Adopted(contexts[c])
          => /\ contexts[c].color_surface = "External"
             /\ contexts[c].framebuffer.tag # "Object"
    /\ (IsReplace /\ Adopted(last.before))
          => /\ ~last.result.ok
             /\ contexts[last.context].framebuffer = Before

\* ---- C13 ----
IsDrop == last.op = "drop"

\* C13: the handle of a Context is non-null when creation returns it, changes
\* only in destroy_context, which always leaves it null; a drop panics exactly
\* when the handle is non-null and the thread is not unwinding, so the drop of a
\* Context that went through destroy_context never panics.
C13_ExplicitDestruction ==
    [][/\ \A c \in 1..Len(contexts) :
             /\ contexts'[c].cgl_context # contexts[c].cgl_context
                   => /\ last'.op = "destroy_context" /\ last'.context = c
                      /\ contexts'[c].cgl_context = NULL
             /\ (last'.op = "destroy_context" /\ last'.context = c)
                   => contexts'[c].cgl_context = NULL
             /\ (last'.op = "drop" /\ last'.context = c)
                   => /\ last'.result \in {Panic, Ok(0)}
                      /\ last'.result = Panic
                            <=> /\ contexts[c].cgl_context # NULL
                                /\ ~Has(last'.trace, "thread::panicking", 1)
                      /\ gl.released[c] > 0 => last'.result = Ok(0)
       /\ \A c \in (Len(contexts) + 1)..Len(contexts') :
             contexts'[c].cgl_context # NULL]_vars

\* a Context that went through destroy_context was dropped without a panic
C13_Witness ==
    /\ IsDrop
    /\ last.before.cgl_context = NULL
    /\ gl.released[last.context] = 1
    /\ contexts[last.context].dropped
    /\ last.result = Ok(0)

\* ---- C14 ----
\* the call <<name1, id1>> was made before the call <<name2, id2>>
Precedes(trace, name1, id1, name2, id2) ==
    \E i, j \in 1..Len(trace) :
        i < j /\ trace[i] = <<name1, id1>> /\ trace[j] = <<name2, id2>>

\* the last call was destroy_context on a live Context with an Object framebuffer
DestroyedObject == IsDestroy /\ Live /\ Before.tag = "Object"

BeforeRelease(name, id) ==
    Precedes(last.trace, name, id, "ReleaseContext::release", last.before.cgl_context)

\* the Releaser ran once, nothing of the Framebuffer was destroyed after it, and
\* the handle is null
ReleasedLast ==
    /\ Count(last.trace, "ReleaseContext::release", last.before.cgl_context) = 1
    /\ \A i, j \in 1..Len(last.trace) :
          (i < j /\ last.trace[i][1] = "ReleaseContext::release")
          => last.trace[j][1] \in {"CGLSetCurrentContext", "CGLDestroyContext"}
    /\ contexts[last.context].cgl_context = NULL

ErrorKindAt(label) ==
    CASE label = "cc_flavor" -> {"UnsupportedGLType"}
      [] label = "cc_lock" -> {"panic"}
      [] label = "cc_choose" -> {"PixelFormatSelectionFailed", "NoPixelFormatFound"}
      [] label = "cc_create" -> {"ContextCreationFailed"}
      [] label = "cc_current" -> {"MakeCurrentFailed"}
      [] OTHER -> {}

\* the result carries the CGLError that the failing native call returned
CarriesCode(call) ==
    /\ call.result.value \in CGLErrors
    /\ Has(call.trace, "CGLError", call.result.value)

\* The outcomes of the step that thread t takes inside create_context;
\* noFormatCarriesCode says whether NoPixelFormatFound is to carry a CGLError.
CreateContextOutcome(t, noFormatCarriesCode) ==
    (local[t].op = "create_context" /\ pc'[t] # pc[t])
    => /\ (pc[t] = "cc_flavor" /\ local[t].attributes.api = "GLES")
             => pc'[t] = "idle" /\ last'.result = Err("UnsupportedGLType")
       /\ (pc[t] = "cc_flavor" /\ local[t].attributes.api # "GLES") => pc'[t] = "cc_lock"
       /\ pc'[t] = "idle"
             => /\ last'.op = "create_context"
                /\ last'.result.ok <=> pc[t] = "cc_populate"
                /\ ~last'.result.ok
                      => /\ contexts' = contexts
                         /\ last'.result.err \in ErrorKindAt(pc[t])
                /\ last'.result.err \in {"PixelFormatSelectionFailed",
                                         "ContextCreationFailed", "MakeCurrentFailed"}
                      => CarriesCode(last')
                /\ last'.result.err = "NoPixelFormatFound"
                      => /\ Has(last'.trace, "CGLChoosePixelFormat", 0)
                         /\ IF noFormatCarriesCode
                            THEN CarriesCode(last')
                            ELSE /\ last'.result.value \notin CGLErrors
                                 /\ Has(last'.trace, "CGLError", kCGLNoError)
                /\ last'.result.ok
                      => /\ Len(contexts') = Len(contexts) + 1
                         /\ last'.result.value = Len(contexts')
                         /\ contexts'[Len(contexts')].cgl_context # NULL
                         /\ contexts'[Len(contexts')].framebuffer = FramebufferNone

\* C15 as stated: GLES fails with UnsupportedGLType; a failed pixel-format
\* selection, no format found, a failed native creation and a failed
\* make-current give PixelFormatSelectionFailed, NoPixelFormatFound,
\* ContextCreationFailed and MakeCurrentFailed, each carrying the platform error
\* code; no failure returns a Context; success returns a Context with a non-null
\* handle and Framebuffer::None.
C15_Original ==
    [][\A t \in Threads : CreateContextOutcome(t, TRUE)]_vars

\* C15 amended: as stated, except that NoPixelFormatFound carries no error code:
\* it is returned when CGLChoosePixelFormat reported kCGLNoError and zero formats.
C15_CreateContextOutcomes ==
    [][\A t \in Threads : CreateContextOutcome(t, FALSE)]_vars

\* make-current failed in a create_context after an earlier creation had
\* succeeded; the error carries the code and no second Context came back
C15_Witness ==
    /\ last.op = "create_context"
    /\ last.result = ErrWith("MakeCurrentFailed", 2)
    /\ Has(last.trace, "CGLError", 2)
    /\ Len(contexts) = 1
    /\ pc[last.thread] = "idle"

\* ---- C16 ----
\* the Context is one returned by create_context and not yet destroyed
CreatedAndLive(context) ==
    context.releaser = "OwnedCGLContext" /\ context.cgl_context # NULL

\* C16: for a Context returned by create_context, the alpha, depth and stencil
\* flags that context_gl_info reports are those of the pixel format negotiated
\* for its native context.
C16_GLInfoMatchesPixelFormat ==
    \A c \in 1..Len(contexts) :
        CreatedAndLive(contexts[c])
        => context_gl_info(contexts[c]).flags = gl.pixelFormat[contexts[c].cgl_context]

\* ---- C17 ----
\* C17: GLContext::make_current calls glx::MakeCurrent exactly when
\* glx::GetCurrentContext differs from the context's handle; when the context is
\* already current it returns Ok(()) and binds nothing; it returns Err only
\* after a glx::MakeCurrent call that returned 0.
C17_MakeCurrentNoOp ==
    [][\A t \in Threads, g \in 1..Len(gl.glx.contexts) :
          (last'.op = "GLContext::make_current" /\ last'.thread = t /\ last'.context = g)
          => LET native_context == gl.glx.contexts[g].native_context
                 already == gl.glx.current[t] = native_context
                 calls == Count(last'.trace, "glx::MakeCurrent", native_context)
             IN /\ "glx::MakeCurrent" \in Names(last'.trace) <=> ~already
                /\ calls = (IF already THEN 0 ELSE 1)
                /\ already => /\ last'.result = Ok(0)
                              /\ gl' = gl
                /\ ~last'.result.ok
                      => /\ last'.result = Err("glx::MakeContextCurrent")
                         /\ calls = 1
                         /\ Has(last'.trace, "Bool", 0)
                         /\ gl' = gl
                /\ last'.result.ok => gl'.glx.current[t] = native_context]_vars

\* make_current on a context that a make_current on the same thread had bound
\* returned Ok without calling glx::MakeCurrent
C17_Witness ==
    /\ last.op = "GLContext::make_current"
    /\ last.result = Ok(0)
    /\ last.trace = <<<<"glx::GetCurrentContext",
                        gl.glx.contexts[last.context].native_context>>>>
    /\ gl.glx.current[last.thread] = gl.glx.contexts[last.context].native_context
    /\ ~gl.glx.contexts[last.context].dropped

\* ---- C18 ----
\* the calls that create or destroy a part of a Framebuffer
Mutators ==
    {"create_surface_texture", "destroy_surface_texture", "destroy_surface",
     "gl::GenFramebuffers", "gl::DeleteFramebuffers", "gl::FramebufferTexture2D",
     "Renderbuffers::new", "Renderbuffers::destroy", "gl::Viewport"}

\* C18: a replace_context_color_surface that gets past the Window test first
\* makes the context current, then flushes, and only then creates or destroys
\* anything; if the make-current fails it returns MakeCurrentFailed with the
\* error code, having made no other call and changed neither the Context nor
\* any texture, framebuffer object or renderbuffer.
C18_MakeCurrentAndFlushFirst ==
    [][\A c \in 1..Len(contexts) :
          (last'.op = "replace_context_color_surface" /\ last'.context = c
             /\ contexts[c].framebuffer.tag # "Window")
          => LET trace == last'.trace
                 failed == Len(trace) >= 2 /\ trace[2][1] = "CGLError"
             IN /\ Len(trace) >= 2
                /\ trace[1] = <<"CGLSetCurrentContext", contexts[c].cgl_context>>
                /\ failed
                      => /\ Len(trace) = 2
                         /\ last'.result = ErrWith("MakeCurrentFailed", trace[2][2])
                         /\ trace[2][2] \in CGLErrors
                         /\ contexts' = contexts
                         /\ gl' = gl
                /\ ~failed
                      => /\ trace[2] = <<"gl::Flush", 0>>
                         /\ last'.result.err # "MakeCurrentFailed"
                /\ \A i \in 1..Len(trace) : trace[i][1] \in Mutators => i > 2]_vars

\* make-current failed on a Context holding an Object framebuffer, which it
\* still holds
C18_Witness ==
    /\ IsReplace
    /\ Before.tag = "Object"
    /\ last.result.err = "MakeCurrentFailed"
    /\ last.result.value \in CGLErrors
    /\ contexts[last.context] = last.before

\* ---- C19 ----
\* thread t takes the step that returns from its creation call
Returns(t) == pc[t] # "idle" /\ pc'[t] = "idle"

C20_NoNativeContextLeak ==
    [][\A t \in Threads :
          (Returns(t) /\ local[t].op = "create_context" /\ local[t].cgl_context # NULL)
          => IF last'.result.ok
             THEN /\ contexts'[last'.result.value].cgl_context = local[t].cgl_context
                  /\ local[t].cgl_context \in gl'.nativeAlive
             ELSE local[t].cgl_context \notin gl'.nativeAlive]_vars

\* ---- C21 ----
\* the framebuffer object, the SurfaceTexture with its Surface, and the
\* Renderbuffers named by an Object framebuffer exist: none has been destroyed
ReferencesLiveObjects(framebuffer) ==
    /\ framebuffer.framebuffer_object \in gl.framebuffers
    /\ framebuffer.color_surface_texture.gl_texture \in gl.textures
    /\ framebuffer.color_surface_texture.surface \in Surfaces \ gl.surfacesDestroyed
    /\ framebuffer.renderbuffers.id \in gl.renderbuffers

C22_DestroyedContextHoldsNothing ==
    (IsDestroy /\ Live)
    => LET context == contexts[last.context]
       IN /\ Before.tag \in {"None", "Window", "Object"}
          /\ context.framebuffer = FramebufferNone
          /\ context.cgl_context = NULL
          /\ context_color_surface(context) = NoSurface
          /\ context_surface_framebuffer_object(context) = Err("NoSurfaceAttached")
          /\ Before.tag = "Object"
                => /\ context_color_surface(last.before) # NoSurface
                   /\ \A c \in 1..Len(contexts) :
                         Attached(c) =>
                             SurfaceOf(c) # context_color_surface(last.before)

\* destroy_context returned from an adopted Context whose Framebuffer was Window
C22_Witness ==
    /\ IsDestroy /\ Live
    /\ Before.tag = "Window"
    /\ context_surface_framebuffer_object(last.before) = Err("WindowAttached")
    /\ contexts[last.context].framebuffer = FramebufferNone
    /\ contexts[last.context].cgl_context = NULL
    /\ context_surface_framebuffer_object(contexts[last.context]) = Err("NoSurfaceAttached")

====
